---- MODULE Spec2Model ----
(***************************************************************************)
(* A model of rpg_helper.py: the Stats dictionary, the RPGHelper           *)
(* character / macro bookkeeping, macro resolution and the dice roller.    *)
(*                                                                         *)
(* Text is modelled as a sequence of one-character strings, so that the    *)
(* regular expressions, str.split, str.strip, int() and str() of the       *)
(* source are computed rather than assumed.  A replacement field of a      *)
(* macro template ("{strmod}") is one element of the template sequence.    *)
(***************************************************************************)
EXTENDS Integers, Sequences, FiniteSets, TLC

VARIABLES
    macros,              \* RPGHelper.macros: macro name -> template
    user_to_characters,  \* RPGHelper.user_to_characters: user -> list of names
    user_default,        \* RPGHelper.user_default: user -> name
    characters,          \* RPGHelper.characters: name -> Stats
    last,                \* what the last handler call was given and returned
    stats,               \* a Stats object under item writes
    written,             \* the last item write made to stats
    rollIn,              \* the text handed to RPGHelper.roll
    rollOut,             \* what RPGHelper.roll did with it
    modIn,               \* the value handed to Stats.get_modifier
    modOut               \* the string Stats.get_modifier returned

vars == <<macros, user_to_characters, user_default, characters, last,
          stats, written, rollIn, rollOut, modIn, modOut>>

(***************************************************************************)
(* Bounds of the model.                                                    *)
(***************************************************************************)
\* the largest explicit dice count of a generated dice text
MaxDice == 2
\* the largest number of signed constant terms of a generated dice text
MaxTerms == 2
\* ability values handed to get_modifier range over -MaxAbility..MaxAbility
MaxAbility == 60

(***************************************************************************)
(* Text helpers: Python's str(), int(), str.strip(), str.split().          *)
(***************************************************************************)
Digits == {"0", "1", "2", "3", "4", "5", "6", "7", "8", "9"}

DigitChars == <<"0", "1", "2", "3", "4", "5", "6", "7", "8", "9">>

DigitVal(c) == CHOOSE n \in 0..9 : DigitChars[n + 1] = c

RECURSIVE NatStr(_)
NatStr(n) == IF n < 10 THEN <<DigitChars[n + 1]>>
             ELSE NatStr(n \div 10) \o <<DigitChars[(n % 10) + 1]>>

\* str(n) of an integer
IntStr(n) == IF n < 0 THEN <<"-">> \o NatStr(0 - n) ELSE NatStr(n)

RECURSIVE DigitsVal(_)
DigitsVal(s) == IF s = <<>> THEN 0
                ELSE 10 * DigitsVal(SubSeq(s, 1, Len(s) - 1)) + DigitVal(s[Len(s)])

\* int(s) of an optionally signed run of digits
ParseInt(s) == IF s[1] = "-" THEN 0 - DigitsVal(Tail(s))
               ELSE IF s[1] = "+" THEN DigitsVal(Tail(s))
               ELSE DigitsVal(s)

RECURSIVE SumSeq(_)
SumSeq(s) == IF s = <<>> THEN 0 ELSE s[1] + SumSeq(Tail(s))

RECURSIVE Concat(_)
Concat(ss) == IF ss = <<>> THEN <<>> ELSE ss[1] \o Concat(Tail(ss))

\* the first position >= p of s that holds no digit ([0-9]* taken greedily)
RECURSIVE SkipDigits(_, _)
SkipDigits(s, p) == IF p <= Len(s) /\ s[p] \in Digits THEN SkipDigits(s, p + 1) ELSE p

\* the first position >= p of s that holds no whitespace (\s* taken greedily)
RECURSIVE SkipSpace(_, _)
SkipSpace(s, p) == IF p <= Len(s) /\ s[p] = " " THEN SkipSpace(s, p + 1) ELSE p

\* the last position <= p of s that holds no whitespace, 0 if there is none
RECURSIVE BackSpace(_, _)
BackSpace(s, p) == IF p >= 1 /\ s[p] = " " THEN BackSpace(s, p - 1) ELSE p

\* s.strip()
Strip(s) == SubSeq(s, SkipSpace(s, 1), BackSpace(s, Len(s)))

\* re.sub(r"\s+", "", s)
NoSpace(s) == SelectSeq(s, LAMBDA c : c # " ")

\* the first position >= p of s that holds whitespace
RECURSIVE SkipWord(_, _)
SkipWord(s, p) == IF p <= Len(s) /\ s[p] # " " THEN SkipWord(s, p + 1) ELSE p

\* s.split(): the whitespace-separated words of s
RECURSIVE SplitFrom(_, _)
SplitFrom(s, p) ==
    LET b == SkipSpace(s, p)
        e == SkipWord(s, b)
    IN  IF b > Len(s) THEN <<>>
        ELSE <<SubSeq(s, b, e - 1)>> \o SplitFrom(s, e)

Split(s) == SplitFrom(s, 1)

\* " ".join(words)
RECURSIVE Join(_)
Join(words) == IF words = <<>> THEN <<>>
               ELSE IF Len(words) = 1 THEN words[1]
               ELSE words[1] \o <<" ">> \o Join(Tail(words))

(***************************************************************************)
(* RPGHelper.roll: the dice grammar and the evaluation.                    *)
(***************************************************************************)
\* group 3 read as parse.groups() gives it: the last capture alone
RECURSIVE NaiveTerms(_, _)
NaiveTerms(s, p) ==
    LET q == SkipSpace(s, p + 1)
        r == SkipDigits(s, q)
    IN  IF p <= Len(s) /\ s[p] \in {"+", "-"} /\ r > q
        THEN LET rest == NaiveTerms(s, r)
             IN  [caps |-> IF rest.caps = <<>> THEN <<SubSeq(s, p, r - 1)>> ELSE rest.caps,
                  pos |-> rest.pos]
        ELSE [caps |-> <<>>, pos |-> p]

\* the captures of group 3, ([+\-]\s*[0-9]+)*, matched greedily from p
\* (parse.captures(3)): the captured terms in order and the position after
\* the last one
RECURSIVE ConstTerms(_, _)
ConstTerms(s, p) ==
    LET q == SkipSpace(s, p + 1)
        r == SkipDigits(s, q)
    IN  IF p <= Len(s) /\ s[p] \in {"+", "-"} /\ r > q
        THEN LET rest == ConstTerms(s, r)
             IN  [caps |-> <<SubSeq(s, p, r - 1)>> \o rest.caps, pos |-> rest.pos]
        ELSE [caps |-> <<>>, pos |-> p]

\* group 4, (\s+[A|D])?, tried at p: the captured text, <<>> when it takes
\* no part in the match.  The class [A|D] holds the three characters A | D.
AdvGroup(s, p) ==
    LET q == SkipSpace(s, p)
    IN  IF q > p /\ q <= Len(s) /\ s[q] \in {"A", "|", "D"}
        THEN SubSeq(s, p, q) ELSE <<>>

NoMatch == [ok |-> FALSE, number |-> <<>>, sides |-> <<>>, constants |-> <<>>,
            adv |-> <<>>, end |-> 0]

\* re.match(r"([0-9]*)d([0-9]+)\s*([+\-]\s*[0-9]+)*(\s+[A|D])?", s): the
\* pattern is anchored at the start only, every piece after the sides is
\* optional, so the first (greedy) attempt of each piece is the match.
\* end is the position after the matched prefix.
RollMatch(s) ==
    LET p1 == SkipDigits(s, 1)
        p2 == SkipDigits(s, p1 + 1)
        p3 == SkipSpace(s, p2)
        terms == ConstTerms(s, p3)
        adv == AdvGroup(s, terms.pos)
    IN  IF p1 <= Len(s) /\ s[p1] = "d" /\ p2 > p1 + 1
        THEN [ok |-> TRUE, number |-> SubSeq(s, 1, p1 - 1),
              sides |-> SubSeq(s, p1 + 1, p2 - 1),
              constants |-> terms.caps, adv |-> adv,
              end |-> terms.pos + Len(adv)]
        ELSE NoMatch

\* number = int(number) if number else 1
DiceCount(number) == IF number = <<>> THEN 1 ELSE ParseInt(number)

\* lines 328-333 with the two comparisons exchanged
SwappedRolls(adv, rolls, rerolls) ==
    IF adv = <<"A">> /\ SumSeq(rerolls) < SumSeq(rolls) THEN rerolls
    ELSE IF adv = <<"D">> /\ SumSeq(rerolls) > SumSeq(rolls) THEN rerolls
    ELSE rolls

\* the branch of lines 328-333: which of the two roll sets is summed
TrueRolls(adv, rolls, rerolls) ==
    IF adv = <<"A">> /\ SumSeq(rerolls) > SumSeq(rolls) THEN rerolls
    ELSE IF adv = <<"D">> /\ SumSeq(rerolls) < SumSeq(rolls) THEN rerolls
    ELSE rolls

\* int(re.sub(r"\s+", "", constant)) for constant in constants if constant
ConstantValues(constants) ==
    [i \in 1..Len(constants) |-> ParseInt(NoSpace(constants[i]))]

\* the outcome records of roll
NoRoll == [kind |-> "none", text |-> <<>>, character |-> <<>>, number |-> 0,
           sides |-> 0, constants |-> <<>>, adv |-> <<>>, rolls |-> <<>>,
           rerolls |-> <<>>, true_rolls |-> <<>>, total |-> 0, shown |-> <<>>,
           label |-> "none"]

\* "<@user> Unknown command: {roll_command}"
UnknownCommand(character, text) ==
    [NoRoll EXCEPT !.kind = "unknown", !.text = text, !.character = character]

\* randint(1, 0) raises ValueError
RollRaised(character, text, m) ==
    [NoRoll EXCEPT !.kind = "ValueError", !.text = text, !.character = character,
                   !.number = DiceCount(m.number), !.sides = ParseInt(m.sides),
                   !.constants = m.constants]

\* the two formatted answers of lines 342-356
Rolled(character, text, m, rolls, rerolls) ==
    LET adv == Strip(m.adv)
        true_rolls == TrueRolls(adv, rolls, rerolls)
    IN  [kind |-> "rolled", text |-> text, character |-> character,
         number |-> DiceCount(m.number), sides |-> ParseInt(m.sides),
         constants |-> m.constants, adv |-> adv,
         rolls |-> rolls, rerolls |-> rerolls, true_rolls |-> true_rolls,
         total |-> SumSeq(true_rolls \o ConstantValues(m.constants)),
         shown |-> IF adv # <<>> THEN <<rolls, rerolls>> ELSE <<rolls>>,
         label |-> IF adv = <<>> THEN "Total"
                   ELSE IF adv = <<"A">> THEN "ADV" ELSE "DISADV"]

\* every answer roll(user, character, text) can give, over the dice drawn
RollOutcomes(character, text) ==
    LET m == RollMatch(Strip(text))
        n == DiceCount(m.number)
        sides == ParseInt(m.sides)
    IN  IF ~m.ok THEN {UnknownCommand(character, text)}
        ELSE IF n > 0 /\ sides < 1 THEN {RollRaised(character, text, m)}
        ELSE {Rolled(character, text, m, rolls, rerolls) :
                 rolls \in [1..n -> 1..sides], rerolls \in [1..n -> 1..sides]}

(***************************************************************************)
(* Stats: the dictionary that derives the modifier entries.                *)
(***************************************************************************)
STAT_ORDER == <<"str", "dex", "con", "int", "wis", "cha">>

AbilityKeys == {STAT_ORDER[i] : i \in 1..Len(STAT_ORDER)}

ModKeys == {"strmod", "dexmod", "conmod", "intmod", "wismod", "chamod"}

\* key + "mod"
ModKey(key) == CASE key = "str" -> "strmod" [] key = "dex" -> "dexmod"
                 [] key = "con" -> "conmod" [] key = "int" -> "intmod"
                 [] key = "wis" -> "wismod" [] key = "cha" -> "chamod"

\* int(x / d) for d > 0: the quotient truncated toward zero
IntQuotient(x, d) == IF x >= 0 THEN x \div d ELSE 0 - ((0 - x) \div d)

\* Stats.get_modifier
get_modifier(value) ==
    LET mod == IntQuotient(value, 2) - 5
    IN  IF mod < 0 THEN IntStr(mod) ELSE <<"+">> \o IntStr(mod)

EmptyDict == [k \in {} |-> 0]

\* dict.__setitem__
Put(d, key, value) == [k \in DOMAIN d \cup {key} |-> IF k = key THEN value ELSE d[k]]

\* __setitem__ without the early return of lines 19-25
SetItemUnguarded(st, key, value) ==
    IF key \in AbilityKeys
    THEN Put(Put(st, ModKey(key), get_modifier(value)), key, value)
    ELSE Put(st, key, value)

\* Stats.__setitem__
SetItem(st, key, value) ==
    IF key \in ModKeys THEN st
    ELSE IF key \in AbilityKeys
         THEN Put(Put(st, ModKey(key), get_modifier(value)), key, value)
         ELSE Put(st, key, value)

\* Stats.__init__: the items of from_dict written one by one
RECURSIVE StatsFrom(_, _)
StatsFrom(st, items) ==
    IF items = <<>> THEN st
    ELSE StatsFrom(SetItem(st, items[1].key, items[1].value), Tail(items))

NewStats(items) == StatsFrom(EmptyDict, items)

(***************************************************************************)
(* RPGHelper.resolve_command: characters, macros and template expansion.   *)
(***************************************************************************)
\* the replacement fields the templates of the model use, and their keys
FieldKey(e) == CASE e = "{strmod}" -> "strmod"
                 [] e = "{dexmod}" -> "dexmod"
                 [] e = "{level}" -> "level"
                 [] e = "{name}" -> "name"
                 [] e = "{proficiency}" -> "proficiency"
                 [] e = "{is_proficient}" -> "is_proficient"
                 [] e = "{adv_or_disadv}" -> "adv_or_disadv"
                 [] e = "{foo}" -> "foo"
                 [] OTHER -> "none"

IsField(e) == FieldKey(e) # "none"

IntKeys == AbilityKeys \cup {"level", "hitdice"}

\* str(value) of the entry of the context under key
FieldText(context, key) == IF key \in IntKeys THEN IntStr(context[key]) ELSE context[key]

\* template.format(**context): the text, or KeyError for a field whose key
\* the context does not hold
RECURSIVE Format(_, _)
Format(template, context) ==
    IF template = <<>> THEN [ok |-> TRUE, text |-> <<>>]
    ELSE LET e == template[1]
             rest == Format(Tail(template), context)
         IN  IF IsField(e) /\ FieldKey(e) \notin DOMAIN context
             THEN [ok |-> FALSE, text |-> <<>>]
             ELSE IF ~rest.ok THEN rest
             ELSE [ok |-> TRUE,
                   text |-> (IF IsField(e) THEN FieldText(context, FieldKey(e)) ELSE <<e>>)
                            \o rest.text]

\* RPGHelper.get_proficiency_by_level
get_proficiency_by_level(level) == <<"+">> \o IntStr(IntQuotient(level - 1, 4) + 2)

Elems(list) == {list[i] : i \in 1..Len(list)}

\* the keyword arguments of lines 281-285
MacroContext(st, command, adv_or_disadv) ==
    LET prof == get_proficiency_by_level(st["level"])
    IN  Put(Put(Put(st, "is_proficient",
                    IF command \in Elems(st["proficient_rolls"]) THEN prof ELSE <<>>),
                "proficiency", prof),
            "adv_or_disadv", adv_or_disadv)

\* re.match(r"(.*?)(\s+[A|D])?$", s).groups(): the shortest head such that
\* the rest is whitespace and one of A | D, or nothing
SuffixSplit(s) ==
    LET n == Len(s)
        p == BackSpace(s, n - 1)
    IN  IF n >= 2 /\ s[n] \in {"A", "|", "D"} /\ p < n - 1
        THEN [command |-> SubSeq(s, 1, p), suffix |-> SubSeq(s, p + 1, n)]
        ELSE [command |-> s, suffix |-> <<>>]

UNKNOWN == <<"U", "N", "K", "N", "O", "W", "N">>

Resolved(character, command, suffix, expr) ==
    [exc |-> "none", character |-> character, command |-> command,
     suffix |-> suffix, expr |-> expr]

ResolveRaised(exc, character) ==
    [exc |-> exc, character |-> character, command |-> <<>>, suffix |-> <<>>,
     expr |-> <<>>]

\* lines 277-298 with the character-local table looked up first
LocalFirst(ms, chars, character, roll_command) ==
    LET st == chars[character]
        parse == SuffixSplit(roll_command)
        command == parse.command
        context == MacroContext(st, command, parse.suffix)
        template == IF "macros" \in DOMAIN st /\ command \in DOMAIN st["macros"]
                    THEN st["macros"][command] ELSE ms[command]
        text == Format(template, context)
    IN  IF command \in DOMAIN ms
           \/ ("macros" \in DOMAIN st /\ command \in DOMAIN st["macros"])
        THEN IF text.ok THEN Resolved(character, command, parse.suffix, text.text)
             ELSE ResolveRaised("KeyError", character)
        ELSE Resolved(character, command, parse.suffix, roll_command)

\* lines 270-298: the macro lookup for the character chosen
ExpandFor(ms, chars, character, roll_command) ==
    LET st == chars[character]
        parse == SuffixSplit(roll_command)
        command == parse.command
        context == MacroContext(st, command, parse.suffix)
        template == IF command \in DOMAIN ms THEN ms[command] ELSE st["macros"][command]
        text == Format(template, context)
    IN  IF command \in DOMAIN ms
           \/ ("macros" \in DOMAIN st /\ command \in DOMAIN st["macros"])
        THEN IF text.ok THEN Resolved(character, command, parse.suffix, text.text)
             ELSE ResolveRaised("KeyError", character)
        ELSE Resolved(character, command, parse.suffix, roll_command)

\* lines 259-265 without the ownership test: any existing character named
\* by the leading token is rolled for
AnyCharacter(owned, chars, token) == TRUE

\* line 260: the leading token names a character of the user
OwnCharacter(owned, chars, token) == token \in Elems(owned)

\* lines 267-268 keeping the text as typed
KeepCommand(parts, roll_command) == roll_command

\* lines 267-268 for a specific character: " ".join(parts[1:])
RestOfCommand(parts, roll_command) == Join(Tail(parts))

\* RPGHelper.resolve_command(user, roll_command), over the tables given
resolve_command(ms, owners, defaults, chars, user, roll_command) ==
    LET parts == Split(roll_command)
        token == parts[1]
        specific == token \in DOMAIN chars /\ OwnCharacter(owners[user], chars, token)
        character == IF specific THEN token ELSE defaults[user]
        command == IF specific THEN RestOfCommand(parts, roll_command) ELSE roll_command
    IN  IF user \notin DOMAIN owners
        THEN Resolved(UNKNOWN, <<>>, <<>>, roll_command)
        ELSE IF user \notin DOMAIN defaults THEN ResolveRaised("KeyError", <<>>)
        ELSE IF parts = <<>> THEN ResolveRaised("IndexError", <<>>)
        ELSE IF token \in DOMAIN chars /\ ~specific
             THEN ResolveRaised("RuntimeError", token)
        ELSE IF character \notin DOMAIN chars THEN ResolveRaised("KeyError", character)
        ELSE ExpandFor(ms, chars, character, command)

\* what a handler call was given and what it answered; exc names the error
\* that left the handler, "none" when it returned its reply
NoCall == [op |-> "none", user |-> "none", arg |-> <<>>, exc |-> "none",
           reply |-> "none", character |-> <<>>, command |-> <<>>,
           suffix |-> <<>>, expr |-> <<>>, label |-> "none"]

\* RPGHelper.handle_roll(user, roll_command): every answer it can give
RollReplies(ms, owners, defaults, chars, user, roll_command) ==
    LET res == resolve_command(ms, owners, defaults, chars, user, roll_command)
        call == [NoCall EXCEPT !.op = "roll", !.user = user, !.arg = roll_command,
                               !.character = res.character, !.command = res.command,
                               !.suffix = res.suffix, !.expr = res.expr]
    IN  IF res.exc = "RuntimeError"
        THEN {[call EXCEPT !.reply = "cannot roll for"]}
        ELSE IF res.exc # "none" THEN {[call EXCEPT !.exc = res.exc]}
        ELSE {[call EXCEPT !.reply = IF out.kind = "ValueError" THEN "none" ELSE out.kind,
                           !.exc = IF out.kind = "ValueError" THEN "ValueError" ELSE "none",
                           !.label = out.label] :
                 out \in RollOutcomes(res.character, res.expr)}

(***************************************************************************)
(* RPGHelper: the character and macro bookkeeping.                         *)
(***************************************************************************)
\* del d[key]
Drop(d, key) == [k \in DOMAIN d \ {key} |-> d[k]]

\* list.remove(x): the list without the first x
RECURSIVE RemoveFirst(_, _)
RemoveFirst(list, x) == IF list = <<>> THEN <<>>
                        ELSE IF list[1] = x THEN Tail(list)
                        ELSE <<list[1]>> \o RemoveFirst(Tail(list), x)

\* lines 213-223: the Stats of a new character
StatMap(name, sheet, old_macros) ==
    StatsFrom(
        NewStats(<<[key |-> "name", value |-> name],
                   [key |-> "proficient_rolls", value |-> sheet.proficients],
                   [key |-> "level", value |-> sheet.level],
                   [key |-> "macros", value |-> old_macros],
                   [key |-> "hitdice", value |-> sheet.hitdice]>>),
        [i \in 1..Len(STAT_ORDER) |-> [key |-> STAT_ORDER[i], value |-> sheet.stats[i]]])

\* the state RPGHelper keeps, and a call's answer beside it
Helper(ms, owners, defaults, chars, call) ==
    [macros |-> ms, user_to_characters |-> owners, user_default |-> defaults,
     characters |-> chars, last |-> call]

\* RPGHelper.add_character(user, "name stats proficients hitdice level")
add_character(ms, owners, defaults, chars, user, name, sheet) ==
    LET call == [NoCall EXCEPT !.op = "add_character", !.user = user, !.character = name]
        mine == user \in DOMAIN owners /\ name \in Elems(owners[user])
        old_macros == IF name \in DOMAIN chars THEN chars[name]["macros"] ELSE EmptyDict
        listed == IF user \in DOMAIN owners THEN owners[user] ELSE <<>>
    IN  IF name \in DOMAIN chars /\ ~mine
        THEN Helper(ms, owners, defaults, chars, [call EXCEPT !.reply = "Cannot recreate"])
        ELSE IF Len(sheet.stats) < Len(STAT_ORDER)
        THEN Helper(ms, owners, defaults, chars,
                    [call EXCEPT !.reply = "Unable to parse character stats"])
        ELSE Helper(ms,
                    Put(owners, user, Append(listed, name)),
                    IF user \in DOMAIN defaults THEN defaults ELSE Put(defaults, user, name),
                    Put(chars, name, StatMap(name, sheet, old_macros)),
                    [call EXCEPT !.reply = "Successfully created character"])

\* lines 189-192: self.user_to_characters[0] is looked up in a dictionary
\* keyed by user, which raises KeyError before the default is switched
SwitchDefaultRaises(defaults, user, left) ==
    [exc |-> "KeyError", defaults |-> defaults]

\* RPGHelper.delete_character(user, name)
delete_character(ms, owners, defaults, chars, user, name) ==
    LET call == [NoCall EXCEPT !.op = "delete_character", !.user = user, !.character = name]
        left == RemoveFirst(owners[user], name)
        switch == SwitchDefaultRaises(defaults, user, left)
    IN  IF user \notin DOMAIN owners
        THEN Helper(ms, owners, defaults, chars,
                    [call EXCEPT !.reply = "does not have characters"])
        ELSE IF name \notin Elems(owners[user])
        THEN Helper(ms, owners, defaults, chars,
                    [call EXCEPT !.reply = "does not have a character by name"])
        ELSE IF name \notin DOMAIN chars
        THEN Helper(ms, owners, defaults, chars,
                    [call EXCEPT !.reply = "Error trying to delete character"])
        ELSE IF left = <<>>
        THEN Helper(ms, Drop(owners, user), Drop(defaults, user), Drop(chars, name),
                    [call EXCEPT !.reply = "Successfully deleted"])
        ELSE IF defaults[user] = name
        THEN Helper(ms, [owners EXCEPT ![user] = left], switch.defaults, Drop(chars, name),
                    IF switch.exc = "none" THEN [call EXCEPT !.reply = "Successfully deleted"]
                    ELSE [call EXCEPT !.exc = switch.exc])
        ELSE Helper(ms, [owners EXCEPT ![user] = left], defaults, Drop(chars, name),
                    [call EXCEPT !.reply = "Successfully deleted"])

\* RPGHelper.add_macro(character, name, macro)
add_macro(chars, character, name, macro) ==
    LET st == chars[character]
        table == IF "macros" \in DOMAIN st THEN st["macros"] ELSE EmptyDict
    IN  [chars EXCEPT ![character] = Put(st, "macros", Put(table, name, macro))]

\* RPGHelper.del_macro(character, name), for a name the table holds
del_macro(chars, character, name) ==
    [chars EXCEPT ![character] = Put(@, "macros", Drop(@["macros"], name))]

\* RPGHelper.handle_macro(user, "macro_command character name macro")
handle_macro(ms, owners, defaults, chars, user, macro_command, character, name, macro) ==
    LET call == [NoCall EXCEPT !.op = "macro", !.user = user, !.character = character,
                               !.command = name, !.label = macro_command]
    IN  IF user \notin DOMAIN owners
        THEN Helper(ms, owners, defaults, chars,
                    [call EXCEPT !.reply = "does not have characters"])
        ELSE IF character \notin Elems(owners[user])
        THEN Helper(ms, owners, defaults, chars,
                    [call EXCEPT !.reply = "does not have character"])
        ELSE IF macro_command \notin {"add", "del"}
        THEN Helper(ms, owners, defaults, chars,
                    [call EXCEPT !.reply = "Unknown macro subcommand"])
        ELSE IF character \notin DOMAIN chars
        THEN Helper(ms, owners, defaults, chars, [call EXCEPT !.exc = "KeyError"])
        ELSE IF macro_command = "add"
        THEN Helper(ms, owners, defaults, add_macro(chars, character, name, macro),
                    [call EXCEPT !.reply = "Successfully added new macro"])
        ELSE IF name \in DOMAIN chars[character]["macros"]
        THEN Helper(ms, owners, defaults, del_macro(chars, character, name),
                    [call EXCEPT !.reply = "Successfully deleted macro"])
        ELSE Helper(ms, owners, defaults, chars, [call EXCEPT !.reply = "Did not find macro"])

(***************************************************************************)
(* The parts of the state a specification leaves alone.                    *)
(***************************************************************************)
NoWrite == [op |-> "none", key |-> "none", value |-> 0]

HelperIdle == /\ macros = EmptyDict
              /\ user_to_characters = EmptyDict
              /\ user_default = EmptyDict
              /\ characters = EmptyDict
              /\ last = NoCall

StatsIdle == stats = EmptyDict /\ written = NoWrite

RollIdle == rollIn = <<>> /\ rollOut = NoRoll

ModIdle == modIn = 0 /\ modOut = <<>>

helperVars == <<macros, user_to_characters, user_default, characters, last>>
statsVars == <<stats, written>>
rollVars == <<rollIn, rollOut>>
modVars == <<modIn, modOut>>

(***************************************************************************)
(* SpecMod: Stats.get_modifier applied to one ability value.               *)
(***************************************************************************)
AbilityValues == (0 - MaxAbility)..MaxAbility

InitMod == /\ modIn \in AbilityValues
           /\ modOut = <<>>
           /\ HelperIdle /\ StatsIdle /\ RollIdle

Modifier == /\ modOut = <<>>
            /\ modOut' = get_modifier(modIn)
            /\ UNCHANGED <<modIn, helperVars, statsVars, rollVars>>

NextMod == Modifier

SpecMod == InitMod /\ [][NextMod]_vars

(***************************************************************************)
(* SpecStats: item writes to one Stats object.                             *)
(***************************************************************************)
\* the largest step of the ability values written
MaxStat == 1

StatValues == {7 + 3 * k : k \in 0..MaxStat}

WriteKeys == {"str", "dex", "cha", "strmod", "dexmod", "chamod", "level"}

WriteItems == [key : WriteKeys, value : StatValues]

InitStats == /\ stats = EmptyDict
             /\ written = NoWrite
             /\ HelperIdle /\ RollIdle /\ ModIdle

\* stats[key] = value
StatsWrite == \E item \in WriteItems :
    /\ stats' = SetItem(stats, item.key, item.value)
    /\ written' = [op |-> "setitem", key |-> item.key, value |-> item.value]
    /\ UNCHANGED <<helperVars, rollVars, modVars>>

\* stats = Stats(from_dict), from_dict holding one or two items
StatsConstruct == \E a \in WriteItems, b \in WriteItems :
    /\ stats' = NewStats(IF a.key = b.key THEN <<a>> ELSE <<a, b>>)
    /\ written' = [op |-> "init", key |-> b.key, value |-> b.value]
    /\ UNCHANGED <<helperVars, rollVars, modVars>>

NextStats == StatsWrite \/ StatsConstruct

SpecStats == InitStats /\ [][NextStats]_vars

(***************************************************************************)
(* SpecRoll: RPGHelper.roll applied to one text.                           *)
(***************************************************************************)
Txt(words) == Concat(words)

Heads == {<<>>, <<"x">>}

CountTexts == {<<>>} \cup {IntStr(n) : n \in 0..MaxDice}

SideTexts == {<<>>, <<"0">>, <<"2">>}

Gaps == {<<>>, <<" ">>}

TermTexts == {<<"+", "1">>, <<"-", "2">>, <<"+", " ", "1">>, <<"-", " ", "1", "2">>}

TermRuns == UNION {[1..n -> TermTexts] : n \in 0..MaxTerms}

Tails == {<<>>, <<" ", "A">>, <<" ", "D">>, <<" ", " ", "|">>, <<" ", "X">>,
          <<"+">>, <<"A">>, <<" ", "D", " ">>}

RollTexts == {Txt(<<h, c, <<"d">>, s, g, Concat(t), e>>) :
                 h \in Heads, c \in CountTexts, s \in SideTexts, g \in Gaps,
                 t \in TermRuns, e \in Tails}

InitRoll == /\ rollIn \in RollTexts
            /\ rollOut = NoRoll
            /\ HelperIdle /\ StatsIdle /\ ModIdle

\* roll(user, "UNKNOWN", rollIn)
Roll == /\ rollOut = NoRoll
        /\ rollOut' \in RollOutcomes(<<>>, rollIn)
        /\ UNCHANGED <<rollIn, helperVars, statsVars, modVars>>

NextRoll == Roll

SpecRoll == InitRoll /\ [][NextRoll]_vars

\* ------------------------------------------------------------------------
\* The dice grammar anchored at both ends,
\*   ^([0-9]*)d([0-9]+)\s*([+\-]\s*[0-9]+)*(\s+[A|D])?$
\* as the set of positions each piece can end at, over every way the
\* pieces can share the text.
\* ------------------------------------------------------------------------
DigitEnds(s, P, least) == UNION {(p + least)..SkipDigits(s, p) : p \in P}

SpaceEnds(s, P, least) == UNION {(p + least)..SkipSpace(s, p) : p \in P}

CharEnds(s, P, chars) == {p + 1 : p \in {q \in P : q <= Len(s) /\ s[q] \in chars}}

TermEnds(s, P) == DigitEnds(s, SpaceEnds(s, CharEnds(s, P, {"+", "-"}), 0), 1)

RECURSIVE TermsEnds(_, _, _)
TermsEnds(s, P, n) == IF n = 0 THEN P ELSE TermsEnds(s, P \cup TermEnds(s, P), n - 1)

GrammarEnds(s) ==
    LET sides == DigitEnds(s, CharEnds(s, DigitEnds(s, {1}, 0), {"d"}), 1)
        terms == TermsEnds(s, SpaceEnds(s, sides, 0), Len(s))
    IN  terms \cup CharEnds(s, SpaceEnds(s, terms, 1), {"A", "|", "D"})

\* s is a dice expression: the whole of it matches the grammar
FullMatch(s) == (Len(s) + 1) \in GrammarEnds(s)

\* the value of every signed constant term written in s, in order
SignedAt(s, p) ==
    LET q == SkipSpace(s, p + 1)
    IN  ParseInt(<<s[p]>> \o SubSeq(s, q, SkipDigits(s, q) - 1))

SignedConstants(s) ==
    LET at == SelectSeq([p \in 1..Len(s) |-> p], LAMBDA p : s[p] \in {"+", "-"})
    IN  [i \in 1..Len(at) |-> SignedAt(s, at[i])]

\* the flag a dice expression ends with, "none" when it has none
WrittenFlag(s) ==
    IF FullMatch(s) /\ s[Len(s)] \in {"A", "D"} /\ s[Len(s) - 1] = " "
    THEN s[Len(s)] ELSE "none"

\* the dice count written in front of the d, 1 when there is none
WrittenCount(s) == IF s[1] = "d" THEN 1 ELSE DigitsVal(SubSeq(s, 1, SkipDigits(s, 1) - 1))

(***************************************************************************)
(* Claims about RPGHelper.roll, checked under SpecRoll.                    *)
(***************************************************************************)
\* C1: with flag A the re-roll set is chosen only if its sum strictly
\* exceeds the primary sum, so the chosen sum is >= the primary sum; with
\* flag D only if it is strictly less, so the chosen sum is <= the primary
\* sum; with no flag the chosen set is the primary set.
C1_Advantage ==
    rollOut.kind = "rolled" =>
        LET rolls == rollOut.rolls
            rerolls == rollOut.rerolls
            chosen == rollOut.total - SumSeq(ConstantValues(rollOut.constants))
        IN  /\ rollOut.true_rolls \in {rolls, rerolls}
            /\ chosen = SumSeq(rollOut.true_rolls)
            /\ rollOut.adv = <<"A">> =>
                  /\ rollOut.true_rolls # rolls => SumSeq(rerolls) > SumSeq(rolls)
                  /\ chosen >= SumSeq(rolls)
            /\ rollOut.adv = <<"D">> =>
                  /\ rollOut.true_rolls # rolls => SumSeq(rerolls) < SumSeq(rolls)
                  /\ chosen <= SumSeq(rolls)
            /\ rollOut.adv = <<>> => rollOut.true_rolls = rolls /\ chosen = SumSeq(rolls)
            /\ WrittenFlag(Strip(rollIn)) = "A" => chosen >= SumSeq(rolls)
            /\ WrittenFlag(Strip(rollIn)) = "D" => chosen <= SumSeq(rolls)
            /\ (FullMatch(Strip(rollIn)) /\ WrittenFlag(Strip(rollIn)) = "none") =>
                  rollOut.true_rolls = rolls

\* C1 witness: under flag A a strictly higher re-roll set was chosen, and
\* under flag D a lower one is among the outcomes of the same model
C1_Witness ==
    /\ rollOut.kind = "rolled"
    /\ rollOut.adv = <<"A">>
    /\ SumSeq(rollOut.rerolls) > SumSeq(rollOut.rolls)
    /\ rollOut.true_rolls = rollOut.rerolls
    /\ rollOut.true_rolls # rollOut.rolls

\* C2: for a dice expression accepted by roll, the total is the sum of the
\* chosen roll set plus the sum of every signed constant term of the
\* expression, and the number of dice is the written count, 1 when omitted.
C2_Total ==
    (rollOut.kind = "rolled" /\ FullMatch(Strip(rollIn))) =>
        /\ rollOut.total = SumSeq(rollOut.true_rolls) + SumSeq(SignedConstants(Strip(rollIn)))
        /\ Len(rollOut.rolls) = WrittenCount(Strip(rollIn))
        /\ Len(rollOut.rerolls) = WrittenCount(Strip(rollIn))

\* C2 witness: an expression with two constant terms and no written count
\* was rolled
C2_Witness ==
    /\ rollOut.kind = "rolled"
    /\ FullMatch(Strip(rollIn))
    /\ Len(SignedConstants(Strip(rollIn))) = 2
    /\ SignedConstants(Strip(rollIn))[1] # 0 - SignedConstants(Strip(rollIn))[2]
    /\ Strip(rollIn)[1] = "d"
    /\ Len(rollOut.rolls) = 1

\* C3: a text that does not match the dice grammar in full yields the
\* "Unknown command" message carrying the text, and no roll outcome.
C3_RejectsPartialMatch ==
    (rollOut.kind # "none" /\ ~FullMatch(Strip(rollIn))) =>
        /\ rollOut.kind = "unknown"
        /\ rollOut.text = rollIn

(***************************************************************************)
(* Claims about Stats, checked under SpecMod and SpecStats.                *)
(***************************************************************************)
\* C6: get_modifier(v) renders floor(v/2) - 5, with a leading "+" if and
\* only if that integer is >= 0.
C6_FloorModifier ==
    modOut # <<>> =>
        LET mod == (modIn \div 2) - 5
        IN  modOut = IF mod >= 0 THEN <<"+">> \o IntStr(mod) ELSE IntStr(mod)

\* C7, the state part: every ability that has a value has a modifier entry
\* equal to get_modifier of that value.
ModifiersInSync ==
    \A a \in AbilityKeys :
        a \in DOMAIN stats =>
            /\ ModKey(a) \in DOMAIN stats
            /\ stats[ModKey(a)] = get_modifier(stats[a])

\* C7, the step part: a write to a modifier key changes nothing; a write to
\* any other key stores the value, and a write to a key that is no ability
\* leaves every modifier entry as it was.
WriteRule ==
    written'.op = "setitem" =>
        LET key == written'.key
        IN  /\ key \in ModKeys => stats' = stats
            /\ key \notin ModKeys =>
                  /\ key \in DOMAIN stats'
                  /\ stats'[key] = written'.value
            /\ key \notin (ModKeys \cup AbilityKeys) =>
                  /\ DOMAIN stats' = DOMAIN stats \cup {key}
                  /\ \A k \in DOMAIN stats : k # key => stats'[k] = stats[k]

\* C7: after any sequence of Stats item writes, construction included, the
\* modifiers are in sync with the abilities; modifier keys cannot be
\* written; other keys are stored verbatim without touching a modifier.
C7_DerivedModifiers == []ModifiersInSync /\ [][WriteRule]_vars

\* C7 witness: an ability was overwritten with a new value after a write to
\* its modifier key was ignored
C7_Witness ==
    /\ written.op = "setitem"
    /\ written.key = "strmod"
    /\ "str" \in DOMAIN stats
    /\ "level" \in DOMAIN stats
    /\ stats["str"] = 10
    /\ stats["strmod"] = <<"+", "0">>

(***************************************************************************)
(* Spec: an RPGHelper with a game loaded.  handle_command is synchronous:  *)
(* a handler runs when no call is in progress, and its reply is returned   *)
(* before the next message is taken.                                       *)
(***************************************************************************)
\* the longest list of characters a user is let to build up
MaxListed == 2

Users == {"u1", "u2"}

Names == {<<"b">>, <<"c">>}

\* macros.json of the game loaded
GameMacros ==
    (<<"m">> :> <<"d", "2", "{strmod}", "{is_proficient}", "{adv_or_disadv}">>) @@
    (<<"k">> :> <<"d", "2", "{foo}">>)

\* the macros users add to their characters
UserMacros ==
    {[name |-> <<"m">>, macro |-> <<"2", "d", "2", "{proficiency}">>],
     [name |-> <<"n">>, macro |-> <<"d", "2", "{dexmod}", "{is_proficient}", "{adv_or_disadv}">>]}

\* the character sheets users type; the last one is short of stats
Sheets ==
    {[stats |-> <<14, 7, 10, 10, 10, 10>>, proficients |-> <<<<"n">>>>,
      hitdice |-> 1, level |-> 5],
     [stats |-> <<14, 7, 10>>, proficients |-> <<<<"n">>>>,
      hitdice |-> 1, level |-> 5]}

\* the roll commands users type: [character] [macro or dice] [ A]
RollCommands ==
    {Txt(<<c, b, a>>) :
        c \in {<<>>, <<"b", " ">>, <<"c", " ">>},
        b \in {<<>>, <<"m">>, <<"n">>, <<"k">>, <<"d", "2">>},
        a \in {<<>>, <<" ", "A">>}}

Init == /\ macros = GameMacros
        /\ user_to_characters = EmptyDict
        /\ user_default = EmptyDict
        /\ characters = EmptyDict
        /\ last = NoCall
        /\ StatsIdle /\ RollIdle /\ ModIdle

Becomes(h) == /\ macros' = h.macros
              /\ user_to_characters' = h.user_to_characters
              /\ user_default' = h.user_default
              /\ characters' = h.characters
              /\ last' = h.last
              /\ UNCHANGED <<statsVars, rollVars, modVars>>

\* !roll <roll_command>
HandleRoll == \E user \in Users, roll_command \in RollCommands :
    /\ last = NoCall
    /\ last' \in RollReplies(macros, user_to_characters, user_default, characters,
                             user, roll_command)
    /\ UNCHANGED <<macros, user_to_characters, user_default, characters>>
    /\ UNCHANGED <<statsVars, rollVars, modVars>>

\* !character add <name> <stats> <proficients> <hitdice> <level>
AddCharacter == \E user \in Users, name \in Names, sheet \in Sheets :
    /\ last = NoCall
    /\ user \in DOMAIN user_to_characters => Len(user_to_characters[user]) < MaxListed
    /\ Becomes(add_character(macros, user_to_characters, user_default, characters,
                             user, name, sheet))

\* !character del <name>
DeleteCharacter == \E user \in Users, name \in Names :
    /\ last = NoCall
    /\ Becomes(delete_character(macros, user_to_characters, user_default, characters,
                             user, name))

\* !macro <add|del|...> <character> <name> <macro>
HandleMacro == \E user \in Users, macro_command \in {"add", "del", "show"},
                  character \in Names, m \in UserMacros :
    /\ last = NoCall
    /\ Becomes(handle_macro(macros, user_to_characters, user_default, characters,
                         user, macro_command, character, m.name, m.macro))

\* handle_command returns the handler's response (or the error leaves it)
Respond == /\ last # NoCall
           /\ last' = NoCall
           /\ UNCHANGED <<macros, user_to_characters, user_default, characters>>
           /\ UNCHANGED <<statsVars, rollVars, modVars>>

Next == HandleRoll \/ AddCharacter \/ DeleteCharacter \/ HandleMacro \/ Respond

Spec == Init /\ [][Next]_vars

(***************************************************************************)
(* Claims about handle_roll and the bookkeeping, checked under Spec.       *)
(***************************************************************************)
Owned(user) == IF user \in DOMAIN user_to_characters
               THEN Elems(user_to_characters[user]) ELSE {}

\* resolve_command returned to handle_roll (it did not raise)
Returned == last.op = "roll" /\ last.exc = "none" /\ last.reply # "cannot roll for"

LocalMacros(character) ==
    IF character \in DOMAIN characters /\ "macros" \in DOMAIN characters[character]
    THEN characters[character]["macros"] ELSE EmptyDict

\* C4: handle_roll answers every user and every roll command text with a
\* message; no error leaves it.
C4_NoErrorEscapes ==
    last.op = "roll" =>
        /\ last.exc = "none"
        /\ last.reply \in {"rolled", "unknown", "cannot roll for"}

\* C5: a macro name that is a key of both the global table and the rolling
\* character's table expands from the global template; the character's
\* template is used only when the name has no global entry.
C5_GlobalFirst ==
    (Returned /\ last.user \in DOMAIN user_to_characters) =>
        LET local == LocalMacros(last.character)
            context == MacroContext(characters[last.character], last.command, last.suffix)
        IN  /\ last.command \in DOMAIN macros =>
                  last.expr = Format(macros[last.command], context).text
            /\ (last.command \notin DOMAIN macros /\ last.command \in DOMAIN local) =>
                  last.expr = Format(local[last.command], context).text

\* C5 witness: a name of both tables was rolled, and the two templates
\* expand to different expressions
C5_Witness ==
    /\ Returned
    /\ last.user \in DOMAIN user_to_characters
    /\ last.command \in DOMAIN macros
    /\ last.command \in DOMAIN LocalMacros(last.character)
    /\ last.reply = "rolled"
    /\ last.expr # Format(LocalMacros(last.character)[last.command],
                          MacroContext(characters[last.character], last.command,
                                       last.suffix)).text

LeadingToken == Split(last.arg)[1]

NamesAnothersCharacter ==
    /\ last.op = "roll"
    /\ Split(last.arg) # <<>>
    /\ LeadingToken \in DOMAIN characters
    /\ LeadingToken \notin Owned(last.user)

Refused ==
    /\ last.exc = "none"
    /\ last.reply = "cannot roll for"
    /\ last.character = LeadingToken
    /\ last.expr = <<>>
    /\ last.label = "none"

\* C8 as stated: whenever the leading token names an existing character the
\* user does not own, the answer is the "cannot roll for" message.
C8_AnyUserRefused == NamesAnothersCharacter => Refused

\* a roll leaves characters, macros, ownership and defaults as they were
RollKeepsState ==
    last'.op = "roll" =>
        UNCHANGED <<macros, user_to_characters, user_default, characters>>

\* C8 as amended: when the user has characters listed and the leading
\* token names an existing character that is not one of them, the command
\* is answered with "cannot roll for" that character, nothing is expanded
\* or rolled, and the state is unchanged.
C8_OwnerCheck ==
    /\ [](NamesAnothersCharacter /\ last.user \in DOMAIN user_to_characters => Refused)
    /\ [][RollKeepsState]_vars

\* C8 witness: a user with a character of their own was refused a roll for
\* another user's character
C8_Witness ==
    /\ NamesAnothersCharacter
    /\ last.user \in DOMAIN user_to_characters
    /\ Refused
    /\ \E other \in DOMAIN user_to_characters :
          other # last.user /\ LeadingToken \in Owned(other)

CommandLookedUp ==
    LET parts == Split(last.arg)
    IN  IF /\ last.user \in DOMAIN user_to_characters
           /\ parts[1] \in DOMAIN characters
           /\ parts[1] \in Owned(last.user)
        THEN Join(Tail(parts)) ELSE last.arg

C10_Consistent ==
    \A user \in DOMAIN user_to_characters :
        /\ user \in DOMAIN user_default
        /\ user_default[user] \in Owned(user)
        /\ Owned(user) \subseteq DOMAIN characters

====
